---- MODULE Spec2Model ----
(***************************************************************************)
(* A model of examples/pylot/detection_utils.py (erdos): the detection     *)
(* evaluator (calculate_iou, compute_miou, get_prediction_results,         *)
(* get_precision_recall, get_avg_precision_at_iou), the point projector    *)
(* (map_ground_3D_transform_to_2D) and the box extractor                   *)
(* (map_ground_bounding_box_to_2D, get_bounding_box_from_corners,          *)
(* get_2d_bbox_from_3d_box) and the camera model                           *)
(* (get_camera_intrinsic_and_transform).                                   *)
(*                                                                         *)
(* The module is Python 2 (line 177 uses tuple parameter unpacking and no  *)
(* __future__ division is imported): "/" between two ints is floor         *)
(* division, "/" with a float operand is true division.                    *)
(*                                                                         *)
(* Every function of the file is pure. Each is an operator computed as the *)
(* code computes it; a specification draws the arguments in its Init and   *)
(* one action per function applies it and stores what the call produced    *)
(* (a returned value, None, or a raised error).                            *)
(*                                                                         *)
(* Numbers. The arguments are integers. A float that the evaluator obtains *)
(* by a division is kept as the exact fraction <<n, d>> with d > 0 (the    *)
(* operands are small integers, so two different fractions are two         *)
(* different floats); the projector's floats also carry numpy's inf and    *)
(* nan. Pixel coordinates of projected corners are kept in tenths of a     *)
(* pixel, so the 0.8 pixel of get_bounding_box_from_corners is 8.          *)
(***************************************************************************)
EXTENDS Integers, Sequences, FiniteSets, TLC

VARIABLES
    fn,              \* the function under study
    pc,              \* "call" before it ran, "done" after
    box_gt, box_p,   \* calculate_iou: the arguments ground_truth, prediction
    iou_fwd,         \* calculate_iou(box_gt, box_p)
    iou_rev,         \* calculate_iou(box_p, box_gt)
    bboxes1, bboxes2,\* compute_miou: the two box lists
    miou_fwd,        \* compute_miou(bboxes1, bboxes2)
    miou_rev,        \* compute_miou(bboxes2, bboxes1)
    ground_truths, predictions, iou_threshold,  \* get_prediction_results: arguments
    match_out,       \* what get_prediction_results produced
    pr_out,          \* what get_precision_recall produced for match_out's counts
    ap_out,          \* what get_avg_precision_at_iou produced
    rgb_img_size,    \* (image_width, image_height)
    rgb_intrinsic,   \* the 3 x 3 intrinsic matrix
    transformed_3d_pos,  \* map_ground_3D_transform_to_2D: the point in camera space
    point_out,       \* what map_ground_3D_transform_to_2D produced
    pos2d_list,      \* the normalised projections of the 8 vertices of the 3D box
    depth_array,     \* the depth buffer
    middle_depth_threshold, neighbor_threshold,
    corners_out,     \* what map_ground_bounding_box_to_2D produced
    ends_out,        \* what get_bounding_box_from_corners produced
    bbox_out,        \* what get_2d_bbox_from_3d_box produced
    field_of_view, image_size,  \* get_camera_intrinsic_and_transform: arguments
    intrinsic_out    \* what get_camera_intrinsic_and_transform produced

evalVars == <<box_gt, box_p, iou_fwd, iou_rev, bboxes1, bboxes2, miou_fwd, miou_rev,
              ground_truths, predictions, iou_threshold, match_out, pr_out, ap_out>>

projVars == <<rgb_img_size, rgb_intrinsic, transformed_3d_pos, point_out>>

boxVars == <<pos2d_list, depth_array, middle_depth_threshold, neighbor_threshold,
             corners_out, ends_out, bbox_out>>

camVars == <<field_of_view, image_size, intrinsic_out>>

vars == <<fn, pc, evalVars, projVars, boxVars, camVars>>

\* The value of a variable that the function under study does not use.
Unused == "unused"

EvalUnused ==
    /\ box_gt = Unused /\ box_p = Unused /\ iou_fwd = Unused /\ iou_rev = Unused
    /\ bboxes1 = Unused /\ bboxes2 = Unused /\ miou_fwd = Unused /\ miou_rev = Unused
    /\ ground_truths = Unused /\ predictions = Unused /\ iou_threshold = Unused
    /\ match_out = Unused /\ pr_out = Unused /\ ap_out = Unused

ProjUnused ==
    /\ rgb_img_size = Unused /\ rgb_intrinsic = Unused
    /\ transformed_3d_pos = Unused /\ point_out = Unused

BoxUnused ==
    /\ pos2d_list = Unused /\ depth_array = Unused
    /\ middle_depth_threshold = Unused /\ neighbor_threshold = Unused
    /\ corners_out = Unused /\ ends_out = Unused /\ bbox_out = Unused

CamUnused ==
    /\ field_of_view = Unused /\ image_size = Unused /\ intrinsic_out = Unused

\* Python's None, as what a call produced.
None == [kind |-> "None"]

-----------------------------------------------------------------------------
(* Bounds of the model. *)

\* Box coordinates of the calculate_iou arguments range over 0..MaxCoord.
MaxCoord == 2

\* predictions, ground_truths, bboxes1 and bboxes2 hold at most MaxBoxes boxes.
MaxBoxes == 2

\* Camera-space points have x and y in -MaxCamXY..MaxCamXY and z in -1..MaxCamZ.
MaxCamXY == 2

MaxCamZ == 3

\* The default image_size of get_camera_intrinsic_and_transform.
ImageWidth == 800

ImageHeight == 600

\* The image_size passed to get_camera_intrinsic_and_transform is within
\* MaxSizeDelta pixels of the default on each axis.
MaxSizeDelta == 2

-----------------------------------------------------------------------------
(* Exact fractions <<n, d>>, d > 0, standing for the float n / d. *)

FracLt(a, b) == a[1] * b[2] < b[1] * a[2]

FracGt(a, b) == FracLt(b, a)

FracEq(a, b) == a[1] * b[2] = b[1] * a[2]

Max2(a, b) == IF a >= b THEN a ELSE b

Min2(a, b) == IF a <= b THEN a ELSE b

Abs(a) == IF a < 0 THEN -a ELSE a

-----------------------------------------------------------------------------
(* calculate_iou: boxes are <<xmin, xmax, ymin, ymax>>. *)

Raise(msg) == [kind |-> "raise", error |-> msg]

Return(v) == [kind |-> "return", value |-> v]

\* A box is malformed when a min exceeds its max (lines 366 and 369).
Malformed(box) == box[1] > box[2] \/ box[3] > box[4]

\* Mutant of NoOverlap: the test forgets the y ranges.
NoOverlapXOnly(gt, p) == gt[2] < p[1] \/ p[2] < gt[1]

\* The test of line 372: the x ranges or the y ranges share no coordinate.
NoOverlap(gt, p) == gt[2] < p[1] \/ p[2] < gt[1] \/ gt[4] < p[3] \/ p[4] < gt[3]

\* The pixel-inclusive area of lines 382 and 383.
PixelArea(x1, x2, y1, y2) == (x2 - x1 + 1) * (y2 - y1 + 1)

\* Mutant of InterArea: the half-open convention, without the +1.
InterAreaHalfOpen(gt, p) ==
    (Min2(gt[2], p[2]) - Max2(gt[1], p[1])) * (Min2(gt[4], p[4]) - Max2(gt[3], p[3]))

\* inter_area of lines 375 to 381.
InterArea(gt, p) ==
    LET inter_x1 == Max2(gt[1], p[1])
        inter_x2 == Min2(gt[2], p[2])
        inter_y1 == Max2(gt[3], p[3])
        inter_y2 == Min2(gt[4], p[4])
    IN  (inter_x2 - inter_x1 + 1) * (inter_y2 - inter_y1 + 1)

\* Mutant of GtCheck: the ground truth box is not checked.
GtCheckSkipped(ground_truth) == FALSE

\* The check of line 369.
GtCheck(ground_truth) == Malformed(ground_truth)

\* calculate_iou(ground_truth, prediction): the raise of a malformed box, 0.0 for
\* boxes that share no coordinate, else float(inter_area) / union as a fraction.
calculate_iou(ground_truth, prediction) ==
    IF Malformed(prediction)
    THEN Raise("AssertionError: Prediction box is malformed?")
    ELSE IF GtCheck(ground_truth)
    THEN Raise("AssertionError: Ground truth box is malformed?")
    ELSE IF NoOverlap(ground_truth, prediction)
    THEN Return(<<0, 1>>)
    ELSE LET inter_area == InterArea(ground_truth, prediction)
             gt_area == PixelArea(ground_truth[1], ground_truth[2],
                                  ground_truth[3], ground_truth[4])
             pred_area == PixelArea(prediction[1], prediction[2],
                                    prediction[3], prediction[4])
         IN  Return(<<inter_area, gt_area + pred_area - inter_area>>)

-----------------------------------------------------------------------------
(* compute_miou: the vectorised IoU matrix. *)

\* The fraction n / d with its sign carried by the numerator (d # 0).
Frac(n, d) == IF d < 0 THEN <<-n, -d>> ELSE <<n, d>>

\* One entry of compute_miou's result: row b1 of bboxes1 is unpacked as
\* x11, x12, y11, y12 (line 53) and row b2 of bboxes2 as x21, y21, x22, y22
\* (line 54). The entry is inter_area / (union + 0.0001).
MiouEntry(b1, b2) ==
    LET x11 == b1[1]  x12 == b1[2]  y11 == b1[3]  y12 == b1[4]
        x21 == b2[1]  y21 == b2[2]  x22 == b2[3]  y22 == b2[4]
        xI1 == Max2(x11, x21)
        xI2 == Min2(x12, x22)
        yI1 == Max2(y11, y21)
        yI2 == Min2(y12, y22)
        inter_area == Max2(xI2 - xI1, 0) * Max2(yI2 - yI1, 0)
        bboxes1_area == (x12 - x11) * (y12 - y11)
        bboxes2_area == (x22 - x21) * (y22 - y21)
        union == (bboxes1_area + bboxes2_area) - inter_area
    IN  Frac(inter_area * 10000, union * 10000 + 1)

\* compute_miou(bboxes1, bboxes2): the len(bboxes1) x len(bboxes2) matrix.
compute_miou(b1s, b2s) ==
    [i \in 1..Len(b1s) |-> [j \in 1..Len(b2s) |-> MiouEntry(b1s[i], b2s[j])]]

-----------------------------------------------------------------------------
(* get_prediction_results: greedy matching of predictions to ground truths. *)

\* The loop of lines 405 to 410 from its k-th (prediction, ground truth) pair on,
\* predictions outermost: ious holds the kept (i, j, iou) triples and calls counts
\* the calculate_iou calls made. Line 408 passes the prediction as calculate_iou's
\* ground_truth parameter and the ground truth as its prediction parameter.
RECURSIVE CollectIous(_, _, _, _, _, _)
CollectIous(gts, preds, threshold, k, ious, calls) ==
    IF k >= Len(preds) * Len(gts)
    THEN [kind |-> "return", value |-> ious, iou_calls |-> calls]
    ELSE LET i == k \div Len(gts)
             j == k % Len(gts)
             iou == calculate_iou(preds[i + 1], gts[j + 1])
         IN  IF iou.kind = "raise"
             THEN [kind |-> "raise", error |-> iou.error, iou_calls |-> calls + 1]
             ELSE CollectIous(gts, preds, threshold, k + 1,
                              IF FracGt(iou.value, threshold)
                              THEN Append(ious, <<i, j, iou.value>>)
                              ELSE ious,
                              calls + 1)

\* sorted(..., key=lambda x: x[-1], reverse=True) of line 421 is stable: an element
\* x already placed stays before a later element e unless e's IoU is greater.
SortsBefore(x, e) == ~FracLt(x[3], e[3])

\* e put behind the elements of the sorted list that sort before it.
RECURSIVE InsertSorted(_, _)
InsertSorted(sorted, e) ==
    IF sorted = <<>> THEN <<e>>
    ELSE IF SortsBefore(Head(sorted), e)
    THEN <<Head(sorted)>> \o InsertSorted(Tail(sorted), e)
    ELSE <<e>> \o sorted

\* The sorted list of line 421.
RECURSIVE SortedIous(_)
SortedIous(ious) ==
    IF ious = <<>> THEN <<>>
    ELSE InsertSorted(SortedIous(SubSeq(ious, 1, Len(ious) - 1)), ious[Len(ious)])

\* Mutant of Unmatched: only the ground truth is looked up.
UnmatchedGtOnly(prediction, ground_truth, predictions_matched, ground_truths_matched) ==
    ground_truth \notin ground_truths_matched

\* The test of line 422.
Unmatched(prediction, ground_truth, predictions_matched, ground_truths_matched) ==
    ground_truth \notin ground_truths_matched /\ prediction \notin predictions_matched

\* The loop of lines 421 to 425 over the sorted triples.
RECURSIVE GreedyMatch(_, _, _, _)
GreedyMatch(sorted, ground_truths_matched, predictions_matched, matched) ==
    IF sorted = <<>>
    THEN [gm |-> ground_truths_matched, pm |-> predictions_matched, matched |-> matched]
    ELSE LET prediction == Head(sorted)[1]
             ground_truth == Head(sorted)[2]
         IN  IF Unmatched(prediction, ground_truth,
                          predictions_matched, ground_truths_matched)
             THEN GreedyMatch(Tail(sorted),
                              ground_truths_matched \cup {ground_truth},
                              predictions_matched \cup {prediction},
                              Append(matched, Head(sorted)))
             ELSE GreedyMatch(Tail(sorted), ground_truths_matched,
                              predictions_matched, matched)

\* Mutant of EmptyPredictionsResult: the counts the other way round.
EmptyPredictionsResultSwapped(gts) == <<0, Len(gts), 0>>

\* Lines 392 to 395: (true_pos, false_pos, false_neg) without predictions.
EmptyPredictionsResult(gts) == <<0, 0, Len(gts)>>

\* get_prediction_results(ground_truths, predictions, iou_threshold): the returned
\* (true_pos, false_pos, false_neg) or the error raised, with the number of
\* calculate_iou calls made and the matched triples.
get_prediction_results(gts, preds, threshold) ==
    IF Len(preds) = 0
    THEN [kind |-> "return", value |-> EmptyPredictionsResult(gts),
          iou_calls |-> 0, matched |-> <<>>]
    ELSE IF Len(gts) = 0
    THEN [kind |-> "return", value |-> <<0, Len(preds), 0>>,
          iou_calls |-> 0, matched |-> <<>>]
    ELSE LET c == CollectIous(gts, preds, threshold, 0, <<>>, 0)
         IN  IF c.kind = "raise"
             THEN [kind |-> "raise", error |-> c.error,
                   iou_calls |-> c.iou_calls, matched |-> <<>>]
             ELSE IF Len(c.value) = 0
             THEN [kind |-> "return", value |-> <<0, Len(preds), Len(gts)>>,
                   iou_calls |-> c.iou_calls, matched |-> <<>>]
             ELSE LET g == GreedyMatch(SortedIous(c.value), {}, {}, <<>>)
                      true_pos == Len(g.matched)
                      false_pos == Len(preds) - Cardinality(g.pm)
                      false_neg == Len(gts) - Cardinality(g.gm)
                  IN  [kind |-> "return", value |-> <<true_pos, false_pos, false_neg>>,
                       iou_calls |-> c.iou_calls, matched |-> g.matched]

-----------------------------------------------------------------------------
(* get_precision_recall and get_avg_precision_at_iou. *)

\* Python 2's "/" on two non-negative ints: floor division.
PyIntDiv(a, b) == <<a \div b, 1>>

\* get_precision_recall(true_positives, false_positives, false_negatives): the
\* arguments are the ints of get_prediction_results, 0.0 is the fraction <<0, 1>>.
get_precision_recall(true_positives, false_positives, false_negatives) ==
    LET precision == IF true_positives + false_positives = 0
                     THEN <<0, 1>>
                     ELSE PyIntDiv(true_positives, true_positives + false_positives)
        recall == IF true_positives + false_negatives = 0
                  THEN <<0, 1>>
                  ELSE PyIntDiv(true_positives, true_positives + false_negatives)
    IN  <<precision, recall>>

-----------------------------------------------------------------------------
(* The detection evaluator's specification: one call of calculate_iou (in both *)
(* argument orders), of compute_miou (in both argument orders) or of           *)
(* get_avg_precision_at_iou.                                                   *)

\* The arguments of calculate_iou: every 4-tuple over 0..MaxCoord, malformed or not.
Boxes == {<<x1, x2, y1, y2>> : x1 \in 0..MaxCoord, x2 \in 0..MaxCoord,
                               y1 \in 0..MaxCoord, y2 \in 0..MaxCoord}

\* The boxes of the lists: the boxes of the scenarios of the specification (an
\* enclosing and a nested box, a box sharing one pixel with the first, a box far
\* from all, and a box with xmin > xmax).
BoxPool == {<<10, 50, 10, 50>>, <<12, 48, 12, 48>>, <<0, 10, 0, 10>>,
            <<100, 110, 100, 110>>, <<10, 5, 0, 10>>}

BoxLists(minLen) == UNION {[1..n -> BoxPool] : n \in minLen..MaxBoxes}

\* The boxes of compute_miou's lists, all well formed, in the layout
\* <<xmin, xmax, ymin, ymax>>.
MiouPool == {<<0, 4, 0, 4>>, <<0, 1, 3, 4>>, <<0, 2, 1, 3>>, <<1, 3, 2, 4>>, <<2, 2, 0, 4>>}

MiouLists == UNION {[1..n -> MiouPool] : n \in 1..MaxBoxes}

\* The thresholds: below every IoU, 0, 1/2, and 1.
Thresholds == {<<-1, 1>>, <<0, 1>>, <<1, 2>>, <<1, 1>>}

InitIou ==
    /\ fn = "calculate_iou"
    /\ box_gt \in Boxes /\ box_p \in Boxes
    /\ bboxes1 = Unused /\ bboxes2 = Unused
    /\ ground_truths = Unused /\ predictions = Unused /\ iou_threshold = Unused

InitMiou ==
    /\ fn = "compute_miou"
    /\ bboxes1 \in MiouLists /\ bboxes2 \in MiouLists
    /\ box_gt = Unused /\ box_p = Unused
    /\ ground_truths = Unused /\ predictions = Unused /\ iou_threshold = Unused

InitMatch ==
    /\ fn = "get_avg_precision_at_iou"
    /\ ground_truths \in BoxLists(0) /\ predictions \in BoxLists(0)
    /\ iou_threshold \in Thresholds
    /\ box_gt = Unused /\ box_p = Unused
    /\ bboxes1 = Unused /\ bboxes2 = Unused

Init ==
    /\ pc = "call"
    /\ iou_fwd = Unused /\ iou_rev = Unused
    /\ miou_fwd = Unused /\ miou_rev = Unused
    /\ match_out = Unused /\ pr_out = Unused /\ ap_out = Unused
    /\ (InitIou \/ InitMiou \/ InitMatch)
    /\ ProjUnused /\ BoxUnused /\ CamUnused

CallCalculateIou ==
    /\ pc = "call" /\ fn = "calculate_iou"
    /\ iou_fwd' = calculate_iou(box_gt, box_p)
    /\ iou_rev' = calculate_iou(box_p, box_gt)
    /\ pc' = "done"
    /\ UNCHANGED <<fn, box_gt, box_p, bboxes1, bboxes2, miou_fwd, miou_rev,
                   ground_truths, predictions, iou_threshold, match_out, pr_out, ap_out,
                   projVars, boxVars, camVars>>

CallComputeMiou ==
    /\ pc = "call" /\ fn = "compute_miou"
    /\ miou_fwd' = compute_miou(bboxes1, bboxes2)
    /\ miou_rev' = compute_miou(bboxes2, bboxes1)
    /\ pc' = "done"
    /\ UNCHANGED <<fn, box_gt, box_p, iou_fwd, iou_rev, bboxes1, bboxes2,
                   ground_truths, predictions, iou_threshold, match_out, pr_out, ap_out,
                   projVars, boxVars, camVars>>

\* get_avg_precision_at_iou (lines 450 to 457): get_prediction_results, then
\* get_precision_recall on its counts; an error of the first ends the call.
CallGetAvgPrecisionAtIou ==
    /\ pc = "call" /\ fn = "get_avg_precision_at_iou"
    /\ LET m == get_prediction_results(ground_truths, predictions, iou_threshold)
       IN  /\ match_out' = m
           /\ IF m.kind = "raise"
              THEN pr_out' = Unused /\ ap_out' = Raise(m.error)
              ELSE LET pr == get_precision_recall(m.value[1], m.value[2], m.value[3])
                   IN  pr_out' = pr /\ ap_out' = Return(pr[1])
    /\ pc' = "done"
    /\ UNCHANGED <<fn, box_gt, box_p, iou_fwd, iou_rev, bboxes1, bboxes2,
                   miou_fwd, miou_rev, ground_truths, predictions, iou_threshold,
                   projVars, boxVars, camVars>>

Next == CallCalculateIou \/ CallComputeMiou \/ CallGetAvgPrecisionAtIou

Spec == Init /\ [][Next]_vars

-----------------------------------------------------------------------------
(* Properties of the detection evaluator. *)

WellFormed(box) == box[1] <= box[2] /\ box[3] <= box[4]

AllWellFormed(boxes) == \A k \in 1..Len(boxes) : WellFormed(boxes[k])

MatchDone == fn = "get_avg_precision_at_iou" /\ pc = "done"

IouDone == fn = "calculate_iou" /\ pc = "done"

MiouDone == fn = "compute_miou" /\ pc = "done"

\* The reference matching of predictions against ground_truths: the IoU of
\* prediction i and ground truth j (1-based here), the pairs above the threshold,
\* their order (IoU descending, ties in (i, j) enumeration order), and the pairs
\* accepted when the pairs are taken in that order.
RefIou(i, j) == calculate_iou(ground_truths[j], predictions[i]).value

RefKept == {q \in (1..Len(predictions)) \X (1..Len(ground_truths)) :
                FracGt(RefIou(q[1], q[2]), iou_threshold)}

RefBefore(q, r) ==
    \/ FracGt(RefIou(q[1], q[2]), RefIou(r[1], r[2]))
    \/ /\ FracEq(RefIou(q[1], q[2]), RefIou(r[1], r[2]))
       /\ (q[1] < r[1] \/ (q[1] = r[1] /\ q[2] < r[2]))

RECURSIVE RefAccepted(_, _)
RefAccepted(remaining, accepted) ==
    IF remaining = {} THEN accepted
    ELSE LET q == CHOOSE q \in remaining : \A r \in remaining \ {q} : RefBefore(q, r)
         IN  RefAccepted(remaining \ {q},
                         IF \A a \in accepted : a[1] # q[1] /\ a[2] # q[2]
                         THEN accepted \cup {q}
                         ELSE accepted)

RefCounts ==
    LET acc == RefAccepted(RefKept, {})
    IN  <<Cardinality(acc),
          Cardinality({i \in 1..Len(predictions) : \A a \in acc : a[1] # i}),
          Cardinality({j \in 1..Len(ground_truths) : \A a \in acc : a[2] # j})>>

\* C1: for non-empty lists of well-formed predictions and ground truths and every
\* threshold, get_prediction_results returns the (tp, fp, fn) of the reference
\* greedy matching (pairs with IoU strictly above the threshold, by IoU descending,
\* ties in enumeration order, a pair accepted only if neither of its boxes is
\* matched), and no prediction and no ground truth is in two accepted pairs.
C1_GreedyMatching ==
    (/\ MatchDone
     /\ Len(predictions) > 0 /\ Len(ground_truths) > 0
     /\ AllWellFormed(predictions) /\ AllWellFormed(ground_truths))
    => /\ match_out.kind = "return"
       /\ match_out.value = RefCounts
       /\ {<<match_out.matched[k][1] + 1, match_out.matched[k][2] + 1>> :
               k \in 1..Len(match_out.matched)} = RefAccepted(RefKept, {})
       /\ \A k, l \in 1..Len(match_out.matched) :
              k # l => /\ match_out.matched[k][1] # match_out.matched[l][1]
                       /\ match_out.matched[k][2] # match_out.matched[l][2]

\* C1's case: a matching that accepted a pair, turned down another pair above the
\* threshold because one of its boxes was already matched, and had two kept pairs
\* of equal IoU to order.
C1_Witness ==
    /\ MatchDone
    /\ Len(predictions) > 0 /\ Len(ground_truths) > 0
    /\ AllWellFormed(predictions) /\ AllWellFormed(ground_truths)
    /\ match_out.kind = "return"
    /\ match_out.value[1] >= 1
    /\ Cardinality(RefKept) > match_out.value[1]
    /\ \E q, r \in RefKept : q # r /\ FracEq(RefIou(q[1], q[2]), RefIou(r[1], r[2]))
    /\ match_out.value = RefCounts

\* C2: with predictions or ground_truths empty, get_prediction_results returns
\* tp = 0, fp = len(predictions), fn = len(ground_truths) for any threshold, and
\* computes no IoU.
C2_EmptyInputs ==
    (MatchDone /\ (Len(predictions) = 0 \/ Len(ground_truths) = 0))
    => /\ match_out.kind = "return"
       /\ match_out.value = <<0, Len(predictions), Len(ground_truths)>>
       /\ match_out.iou_calls = 0

\* C2's case: no prediction, and ground truths among which one is malformed.
C2_Witness ==
    /\ MatchDone
    /\ Len(predictions) = 0 /\ Len(ground_truths) = 2
    /\ ~AllWellFormed(ground_truths)
    /\ match_out.value = <<0, 0, 2>>

\* C3: calculate_iou raises, and returns no number, whenever either box has
\* xmin > xmax or ymin > ymax, whatever the other box is; get_prediction_results
\* (and so get_avg_precision_at_iou) called with non-empty lists holding such a
\* box ends in that error instead of returning counts.
C3_MalformedBoxRaises ==
    /\ (IouDone /\ (~WellFormed(box_gt) \/ ~WellFormed(box_p)))
       => iou_fwd.kind = "raise" /\ iou_rev.kind = "raise"
    /\ (/\ MatchDone
        /\ Len(predictions) > 0 /\ Len(ground_truths) > 0
        /\ (~AllWellFormed(predictions) \/ ~AllWellFormed(ground_truths)))
       => match_out.kind = "raise" /\ ap_out.kind = "raise"

\* C3's case: a malformed ground truth box with a well-formed prediction.
C3_Witness ==
    /\ IouDone
    /\ ~WellFormed(box_gt) /\ WellFormed(box_p)
    /\ iou_fwd.kind = "raise"

\* C4: calculate_iou(a, b) = calculate_iou(b, a) for well-formed boxes, and
\* compute_miou(A, B)[i][j] = compute_miou(B, A)[j][i] for lists of boxes in the
\* layout (xmin, xmax, ymin, ymax).
C4_Symmetric ==
    /\ (IouDone /\ WellFormed(box_gt) /\ WellFormed(box_p))
       => /\ iou_fwd.kind = "return" /\ iou_rev.kind = "return"
          /\ FracEq(iou_fwd.value, iou_rev.value)
    /\ (MiouDone /\ AllWellFormed(bboxes1) /\ AllWellFormed(bboxes2))
       => \A i \in 1..Len(bboxes1), j \in 1..Len(bboxes2) :
              FracEq(miou_fwd[i][j], miou_rev[j][i])

\* The inclusive integer ranges of two boxes share no coordinate on the x axis or
\* on the y axis.
Disjoint(a, b) ==
    \/ (a[1]..a[2]) \cap (b[1]..b[2]) = {}
    \/ (a[3]..a[4]) \cap (b[3]..b[4]) = {}

\* C5: calculate_iou(b, b) is exactly 1.0 for every well-formed box b, degenerate
\* ones included.
C5_SelfIouIsOne ==
    (IouDone /\ box_gt = box_p /\ WellFormed(box_gt))
    => /\ iou_fwd.kind = "return"
       /\ iou_fwd.value[2] > 0
       /\ iou_fwd.value[1] = iou_fwd.value[2]

\* C5's case: a box with xmin = xmax and ymin = ymax compared with itself.
C5_Witness ==
    /\ IouDone
    /\ box_gt = box_p
    /\ box_gt[1] = box_gt[2] /\ box_gt[3] = box_gt[4]
    /\ iou_fwd = Return(<<1, 1>>)

\* C6: calculate_iou of two disjoint well-formed boxes is exactly 0.0, and
\* well-formed predictions each disjoint from every ground truth give tp = 0,
\* fp = len(predictions), fn = len(ground_truths) at any threshold >= 0.
C6_DisjointIsZero ==
    /\ (IouDone /\ WellFormed(box_gt) /\ WellFormed(box_p) /\ Disjoint(box_gt, box_p))
       => iou_fwd.kind = "return" /\ iou_fwd.value[1] = 0 /\ iou_fwd.value[2] > 0
    /\ (/\ MatchDone
        /\ AllWellFormed(predictions) /\ AllWellFormed(ground_truths)
        /\ iou_threshold[1] >= 0
        /\ \A i \in 1..Len(predictions), j \in 1..Len(ground_truths) :
               Disjoint(predictions[i], ground_truths[j]))
       => /\ match_out.kind = "return"
          /\ match_out.value = <<0, Len(predictions), Len(ground_truths)>>

\* C6's case: two boxes whose x ranges overlap and whose y ranges do not.
C6_Witness ==
    /\ IouDone
    /\ WellFormed(box_gt) /\ WellFormed(box_p)
    /\ box_gt[2] >= box_p[1] /\ box_p[2] >= box_gt[1]
    /\ box_gt[4] < box_p[3]
    /\ iou_fwd = Return(<<0, 1>>)

\* The exact value of n / d, 0.0 when d = 0.
RatioOrZero(n, d) == IF d = 0 THEN <<0, 1>> ELSE <<n, d>>

\* C7: for the counts of get_prediction_results, get_precision_recall returns
\* precision = tp / (tp + fp) and recall = tp / (tp + fn) as rational values, each
\* 0.0 when its denominator is 0, and get_avg_precision_at_iou returns that
\* precision.
C7_PrecisionRecall ==
    (MatchDone /\ match_out.kind = "return")
    => LET tp == match_out.value[1]
           fp == match_out.value[2]
           fneg == match_out.value[3]
       IN  /\ FracEq(pr_out[1], RatioOrZero(tp, tp + fp))
           /\ FracEq(pr_out[2], RatioOrZero(tp, tp + fneg))
           /\ ap_out = Return(pr_out[1])

-----------------------------------------------------------------------------
(* map_ground_3D_transform_to_2D, from the camera-space point of lines 81 and 82 *)
(* on. A float is [kind |-> "fin", n, d], the fraction n / d with d > 0, or has   *)
(* kind "inf", "-inf" or "nan".                                                   *)

Fin(n, d) == IF d < 0 THEN [kind |-> "fin", n |-> -n, d |-> -d]
             ELSE [kind |-> "fin", n |-> n, d |-> d]

NonFinite(k) == [kind |-> k, n |-> 0, d |-> 0]

\* numpy's float division a / b of two integers: a zero divisor gives an infinity
\* or a nan (and a warning), not an error.
NpDivide(a, b) ==
    IF b = 0
    THEN NonFinite(IF a > 0 THEN "inf" ELSE IF a < 0 THEN "-inf" ELSE "nan")
    ELSE Fin(a, b)

\* The float w - v for an integer w.
SubFrom(w, v) ==
    IF v.kind = "nan" THEN NonFinite("nan")
    ELSE IF v.kind = "inf" THEN NonFinite("-inf")
    ELSE IF v.kind = "-inf" THEN NonFinite("inf")
    ELSE Fin(w * v.d - v.n, v.d)

\* The comparisons v >= 0 and v < w of line 92 for an integer w: every comparison
\* with a nan is false.
GeZero(v) ==
    IF v.kind \in {"nan", "-inf"} THEN FALSE
    ELSE IF v.kind = "inf" THEN TRUE
    ELSE v.n >= 0

LtInt(v, w) ==
    IF v.kind \in {"nan", "inf"} THEN FALSE
    ELSE IF v.kind = "-inf" THEN TRUE
    ELSE v.n < w * v.d

\* np.dot(rgb_intrinsic, transformed_3d_pos[:3]) of line 83.
IntrinsicDot(intrinsic, p) ==
    [k \in 1..3 |-> intrinsic[k][1] * p[1] + intrinsic[k][2] * p[2] + intrinsic[k][3] * p[3]]

\* Mutant of InFront: the depth is not looked at.
InFrontAlways(depth) == TRUE

\* The test of lines 89 and 155: the point is in front of the camera.
InFront(depth) == depth > 0

\* The test of line 92.
InsideBounds(x_2d, y_2d, img_width, img_height) ==
    GeZero(x_2d) /\ LtInt(x_2d, img_width) /\ GeZero(y_2d) /\ LtInt(y_2d, img_height)

\* Lines 83 to 94: the perspective divide, the depth test, the mirroring and the
\* bounds test; (x_2d, y_2d, depth) or None.
map_ground_3D_transform_to_2D(intrinsic, img_size, cam_pos) ==
    LET dot == IntrinsicDot(intrinsic, cam_pos)
        pos2d == <<NpDivide(dot[1], dot[3]), NpDivide(dot[2], dot[3]), dot[3]>>
        img_width == img_size[1]
        img_height == img_size[2]
        x_2d == SubFrom(img_width, pos2d[1])
        y_2d == SubFrom(img_height, pos2d[2])
    IN  IF InFront(pos2d[3]) /\ InsideBounds(x_2d, y_2d, img_width, img_height)
        THEN [kind |-> "point", x_2d |-> x_2d, y_2d |-> y_2d, depth |-> pos2d[3]]
        ELSE None

\* The intrinsic matrix of lines 355 to 358 for the default image size: focal
\* length image_width / 2 at 90 degrees, principal point at the image centre.
DefaultIntrinsic ==
    <<<<ImageWidth \div 2, 0, ImageWidth \div 2>>,
      <<0, ImageWidth \div 2, ImageHeight \div 2>>,
      <<0, 0, 1>>>>

CamPoints == {<<x, y, z>> : x \in -MaxCamXY..MaxCamXY, y \in -MaxCamXY..MaxCamXY,
                            z \in -1..MaxCamZ}

InitProj ==
    /\ fn = "map_ground_3D_transform_to_2D" /\ pc = "call"
    /\ rgb_img_size = <<ImageWidth, ImageHeight>>
    /\ rgb_intrinsic = DefaultIntrinsic
    /\ transformed_3d_pos \in CamPoints
    /\ point_out = Unused
    /\ EvalUnused /\ BoxUnused /\ CamUnused

CallMapGround3DTransformTo2D ==
    /\ pc = "call" /\ fn = "map_ground_3D_transform_to_2D"
    /\ point_out' = map_ground_3D_transform_to_2D(rgb_intrinsic, rgb_img_size,
                                                  transformed_3d_pos)
    /\ pc' = "done"
    /\ UNCHANGED <<fn, rgb_img_size, rgb_intrinsic, transformed_3d_pos, evalVars, boxVars,
                   camVars>>

SpecProj == InitProj /\ [][CallMapGround3DTransformTo2D]_vars

ProjDone == fn = "map_ground_3D_transform_to_2D" /\ pc = "done"

\* C9: map_ground_3D_transform_to_2D returns a point (x_2d, y_2d, depth) exactly
\* when depth > 0 and 0 <= x_2d < image_width and 0 <= y_2d < image_height, with
\* x_2d = image_width - projected_x and y_2d = image_height - projected_y; in every
\* other case, a zero divisor included, it returns None, and no returned coordinate
\* is infinite or undefined.
C9_ProjectOnlyVisible ==
    ProjDone =>
      LET dot == IntrinsicDot(rgb_intrinsic, transformed_3d_pos)
          z == dot[3]
          w == rgb_img_size[1]
          h == rgb_img_size[2]
          \* 0 <= w - dot[1]/z < w and 0 <= h - dot[2]/z < h, multiplied by z > 0
          visible == /\ z > 0
                     /\ 0 < dot[1] /\ dot[1] <= w * z
                     /\ 0 < dot[2] /\ dot[2] <= h * z
      IN  /\ visible <=> point_out # None
          /\ point_out # None =>
                /\ point_out.depth = z
                /\ point_out.x_2d.kind = "fin" /\ point_out.y_2d.kind = "fin"
                /\ point_out.x_2d.n * z = (w * z - dot[1]) * point_out.x_2d.d
                /\ point_out.y_2d.n * z = (h * z - dot[2]) * point_out.y_2d.d

\* C9's case: a camera-space point with z = 0, for which the call gives None.
C9_Witness ==
    /\ ProjDone
    /\ transformed_3d_pos[3] = 0 /\ transformed_3d_pos[1] # 0
    /\ point_out = None

-----------------------------------------------------------------------------
(* The box extractor: map_ground_bounding_box_to_2D (from the normalised pos2d  *)
(* of lines 148 to 152 on), get_bounding_box_from_corners,                      *)
(* get_bounding_box_sampling_points, have_same_depth, inside_image,             *)
(* select_max_bbox and get_2d_bbox_from_3d_box.                                 *)
(* The x and y of pos2d and of a corner are in tenths of a pixel, those of a    *)
(* sampling point (a midpoint of two corners) in twentieths; depths are         *)
(* integers.                                                                    *)

\* Lines 155 to 159 for one vertex: the corner (x_2d, y_2d, depth) in a one-element
\* list, or the empty list when the vertex is dropped. The admission test of line
\* 158 is the loose one: (x_2d >= 0 or y_2d >= 0) and (x_2d < width or y_2d < height).
ProjectedCorner(pos2d, img_size) ==
    LET x_2d == 10 * img_size[1] - pos2d[1]
        y_2d == 10 * img_size[2] - pos2d[2]
    IN  IF /\ InFront(pos2d[3])
           /\ (x_2d >= 0 \/ y_2d >= 0)
           /\ (x_2d < 10 * img_size[1] \/ y_2d < 10 * img_size[2])
        THEN <<<<x_2d, y_2d, pos2d[3]>>>>
        ELSE <<>>

\* The loop of lines 135 to 159: coords, in vertex order.
RECURSIVE map_ground_bounding_box_to_2D(_, _)
map_ground_bounding_box_to_2D(pos2ds, img_size) ==
    IF pos2ds = <<>> THEN <<>>
    ELSE ProjectedCorner(Head(pos2ds), img_size)
         \o map_ground_bounding_box_to_2D(Tail(pos2ds), img_size)

\* Mutant of TooClose: both differences must be small.
TooCloseBoth(a, b) == Abs(a[1] - b[1]) <= 8 /\ Abs(a[2] - b[2]) <= 8

\* The test of line 205: the x or the y coordinates differ by at most 0.8.
TooClose(a, b) == Abs(a[1] - b[1]) <= 8 \/ Abs(a[2] - b[2]) <= 8

\* Lines 215 to 218.
OrientEnds(a, b) ==
    IF a[1] < b[1] /\ a[2] < b[2]
    THEN [kind |-> "ends", first |-> a, second |-> b]
    ELSE [kind |-> "ends", first |-> b, second |-> a]

\* The loop of line 204 from the pair (i, j) on, in the order of
\* itertools.combinations (i < j, lexicographic).
RECURSIVE CornersLoop(_, _, _, _, _)
CornersLoop(corners, i, j, max_distance, opp_ends) ==
    IF i >= Len(corners) THEN opp_ends
    ELSE IF j > Len(corners) THEN CornersLoop(corners, i + 1, i + 2, max_distance, opp_ends)
    ELSE LET a == corners[i]
             b == corners[j]
             distance == (b[1] - a[1]) * (b[1] - a[1]) + (b[2] - a[2]) * (b[2] - a[2])
         IN  IF ~TooClose(a, b) /\ distance > max_distance
             THEN CornersLoop(corners, i, j + 1, distance, OrientEnds(a, b))
             ELSE CornersLoop(corners, i, j + 1, max_distance, opp_ends)

\* get_bounding_box_from_corners(corners): the opposite ends, or None.
get_bounding_box_from_corners(corners) == CornersLoop(corners, 1, 2, 0, None)

\* get_bounding_box_sampling_points(ends): the middle point and the 7 sampling
\* points (the middle point first), in twentieths of a pixel, with the depth of
\* the second end.
get_bounding_box_sampling_points(ends) ==
    LET a == ends.first
        b == ends.second
        middle_point == <<a[1] + b[1], a[2] + b[2], b[3]>>
        Shifted(dx, dy) == <<middle_point[1] + 20 * dx, middle_point[2] + 20 * dy,
                             middle_point[3]>>
    IN  [middle_point |-> middle_point,
         sampling_points |-> <<middle_point, Shifted(2, 0), Shifted(1, 1), Shifted(1, -1),
                               Shifted(-2, 0), Shifted(-1, 1), Shifted(-1, -1)>>]

\* inside_image(x, y, img_width, img_height) for x and y in twentieths.
inside_image(x, y, img_width, img_height) ==
    x >= 0 /\ y >= 0 /\ x < 20 * img_width /\ y < 20 * img_height

\* Python's int() of the float v / unit: truncation towards zero.
IntTrunc(v, unit) == IF v >= 0 THEN v \div unit ELSE -((-v) \div unit)

\* depth_array[y][x]: the buffers of the model hold the value inside on the columns
\* lo..hi and the value outside elsewhere.
DepthAt(buffer, y, x) == IF x >= buffer.lo /\ x <= buffer.hi THEN buffer.inside
                         ELSE buffer.outside

\* have_same_depth(x, y, z, depth_array, threshold) for x and y in twentieths.
have_same_depth(x, y, z, buffer, threshold) ==
    Abs(DepthAt(buffer, IntTrunc(y, 20), IntTrunc(x, 20)) * 1000 - z) < threshold

\* select_max_bbox(ends): (xmin, xmax, ymin, ymax) of the two ends' int() pixels.
select_max_bbox(ends) ==
    LET x0 == IntTrunc(ends.first[1], 10)
        y0 == IntTrunc(ends.first[2], 10)
        corner == <<IntTrunc(ends.second[1], 10), IntTrunc(ends.second[2], 10)>>
    IN  <<Min2(x0, corner[1]), Max2(x0, corner[1]), Min2(y0, corner[2]), Max2(y0, corner[2])>>

\* The size filter without its test of the area.
LargeEnoughNoArea(bbox, img_size) ==
    LET width == bbox[2] - bbox[1]
        height == bbox[4] - bbox[3]
    IN  /\ 100 * width > img_size[1]
        /\ 100 * height > img_size[2]

\* The size filter of lines 297 to 299 and 325 to 327 on integer widths and
\* heights: width > 0.01 * image_width, height > 0.01 * image_height and
\* width * height > 0.0002 * image_width * image_height.
LargeEnough(bbox, img_size) ==
    LET width == bbox[2] - bbox[1]
        height == bbox[4] - bbox[3]
    IN  /\ 100 * width > img_size[1]
        /\ 100 * height > img_size[2]
        /\ 10000 * width * height > 2 * img_size[1] * img_size[2]

\* Lines 292 to 300 and 318 to 328: the box of the ends when it is large enough.
SelectedBbox(ends, img_size) ==
    LET bbox == select_max_bbox(ends)
    IN  IF LargeEnough(bbox, img_size) THEN [kind |-> "bbox", value |-> bbox] ELSE None

\* The number of True in same_depth_points and its length (lines 307 to 315).
SameDepthCount(points, buffer, threshold, img_size) ==
    LET inside == {k \in 1..Len(points) :
                       inside_image(points[k][1], points[k][2], img_size[1], img_size[2])}
    IN  <<Cardinality({k \in inside : have_same_depth(points[k][1], points[k][2],
                                                       points[k][3], buffer, threshold)}),
          Cardinality(inside)>>

\* Lines 280 to 328: the box for the corners, or None.
ExtractBbox(corners, buffer, img_size, middle_threshold, neighbor_thr) ==
    LET ends == get_bounding_box_from_corners(corners)
    IN  IF ends = None THEN None
        ELSE LET sp == get_bounding_box_sampling_points(ends)
                 middle_point == sp.middle_point
             IN  IF /\ inside_image(middle_point[1], middle_point[2],
                                    img_size[1], img_size[2])
                    /\ have_same_depth(middle_point[1], middle_point[2], middle_point[3],
                                       buffer, middle_threshold)
                 THEN SelectedBbox(ends, img_size)
                 ELSE LET c == SameDepthCount(sp.sampling_points, buffer,
                                              neighbor_thr, img_size)
                      IN  \* same_depth_points.count(True) >= 0.4 * len(same_depth_points)
                          IF c[2] > 0 /\ 10 * c[1] >= 4 * c[2]
                          THEN SelectedBbox(ends, img_size)
                          ELSE None

\* Mutant of AllCornersProjected: any non-empty corner list is processed.
SomeCornersProjected(corners) == Len(corners) > 0

\* The test of line 279.
AllCornersProjected(corners) == Len(corners) = 8

\* get_2d_bbox_from_3d_box, given the corners of line 275.
get_2d_bbox_from_3d_box(corners, buffer, img_size, middle_threshold, neighbor_thr) ==
    IF AllCornersProjected(corners)
    THEN ExtractBbox(corners, buffer, img_size, middle_threshold, neighbor_thr)
    ELSE None

-----------------------------------------------------------------------------
(* The box extractor's specification: one call of get_2d_bbox_from_3d_box. *)

\* The pos2d of the vertex that projects to the corner (x_2d, y_2d) in tenths of a
\* pixel, at the given depth.
Pos2d(x_2d, y_2d, depth) == <<10 * ImageWidth - x_2d, 10 * ImageHeight - y_2d, depth>>

\* The projections of the 4 vertices of the box's near face are drawn from: the
\* corners of a 60 x 80 pixel rectangle (two of them 0.5 and 0.4 pixel off the
\* axes of the first), a corner 4 x 3 pixels from the first, a corner left of the
\* image (which line 158 keeps), a corner above and left of the image (which it
\* drops) and a vertex behind the camera.
NearFacePool ==
    {Pos2d(1000, 1000, 2000), Pos2d(1005, 1800, 2000), Pos2d(1600, 1004, 2050),
     Pos2d(1600, 1800, 2050), Pos2d(1040, 1030, 2000), Pos2d(-50, 1200, 2000),
     Pos2d(-30, -40, 2000), Pos2d(1000, 1000, -5)}

\* The far face is the near face moved by one of these (dx, dy), in tenths.
FaceOffsets == {<<200, -100>>, <<-4, 4>>, <<100, -80>>}

\* The 8 vertices: a near face and the same face moved by the offset.
VertexLists ==
    {[k \in 1..8 |-> IF k <= 4 THEN near[k]
                     ELSE <<near[k - 4][1] - off[1], near[k - 4][2] - off[2],
                            near[k - 4][3]>>] :
        near \in [1..4 -> NearFacePool], off \in FaceOffsets}

\* The depth buffers: 2 everywhere (2000 after the scaling by 1000), 9 everywhere,
\* 2 except 9 on the column 130 or on the columns from 130 on, and 9 except 2 on
\* the columns 128 and 129.
DepthBuffers ==
    {[lo |-> 0, hi |-> -1, inside |-> 9, outside |-> 2],
     [lo |-> 0, hi |-> ImageWidth - 1, inside |-> 9, outside |-> 2],
     [lo |-> 130, hi |-> 130, inside |-> 9, outside |-> 2],
     [lo |-> 130, hi |-> ImageWidth - 1, inside |-> 9, outside |-> 2],
     [lo |-> 128, hi |-> 129, inside |-> 2, outside |-> 9]}

\* (middle_depth_threshold, neighbor_threshold).
DepthThresholds == {<<100, 100>>, <<1, 100>>}

InitBox ==
    /\ fn = "get_2d_bbox_from_3d_box" /\ pc = "call"
    /\ rgb_img_size = <<ImageWidth, ImageHeight>>
    /\ pos2d_list \in VertexLists
    /\ depth_array \in DepthBuffers
    /\ \E t \in DepthThresholds :
           middle_depth_threshold = t[1] /\ neighbor_threshold = t[2]
    /\ corners_out = Unused /\ ends_out = Unused /\ bbox_out = Unused
    /\ rgb_intrinsic = Unused /\ transformed_3d_pos = Unused /\ point_out = Unused
    /\ EvalUnused /\ CamUnused

\* get_2d_bbox_from_3d_box (lines 271 to 328): the corners of line 275, the ends
\* of line 280 when there are 8 corners, and the box returned.
CallGet2dBboxFrom3dBox ==
    /\ pc = "call" /\ fn = "get_2d_bbox_from_3d_box"
    /\ LET corners == map_ground_bounding_box_to_2D(pos2d_list, rgb_img_size)
       IN  /\ corners_out' = corners
           /\ ends_out' = IF AllCornersProjected(corners)
                          THEN get_bounding_box_from_corners(corners)
                          ELSE [kind |-> "not called"]
           /\ bbox_out' = get_2d_bbox_from_3d_box(corners, depth_array, rgb_img_size,
                                                  middle_depth_threshold,
                                                  neighbor_threshold)
    /\ pc' = "done"
    /\ UNCHANGED <<fn, rgb_img_size, rgb_intrinsic, transformed_3d_pos, point_out,
                   pos2d_list, depth_array, middle_depth_threshold, neighbor_threshold,
                   evalVars, camVars>>

SpecBox == InitBox /\ [][CallGet2dBboxFrom3dBox]_vars

BoxDone == fn = "get_2d_bbox_from_3d_box" /\ pc = "done"

\* C8: whenever the projected corner list has 0 to 7 elements,
\* get_2d_bbox_from_3d_box gives no box (None, and no error), whatever the depth
\* buffer and the thresholds are.
C8_NoBoxUnlessEightCorners ==
    (BoxDone /\ Len(corners_out) \in 0..7) => bbox_out = None

\* C8's case: 7 corners survived, and the same 7 corners would have passed the
\* opposite-corner selection, the depth test and the size filter.
C8_Witness ==
    /\ BoxDone
    /\ Len(corners_out) = 7
    /\ bbox_out = None
    /\ ExtractBbox(corners_out, depth_array, rgb_img_size,
                   middle_depth_threshold, neighbor_threshold) # None

\* The index pairs (i, j), i < j, of the corners whose x coordinates differ by more
\* than 0.8 and whose y coordinates differ by more than 0.8.
QualifyingPairs ==
    {q \in (1..Len(corners_out)) \X (1..Len(corners_out)) :
        /\ q[1] < q[2]
        /\ Abs(corners_out[q[1]][1] - corners_out[q[2]][1]) > 8
        /\ Abs(corners_out[q[1]][2] - corners_out[q[2]][2]) > 8}

SquaredDistance(a, b) == (a[1] - b[1]) * (a[1] - b[1]) + (a[2] - b[2]) * (a[2] - b[2])

\* The returned pair is the qualifying pair q, of maximum squared distance.
IsMaximalPair(q) ==
    /\ {ends_out.first, ends_out.second} = {corners_out[q[1]], corners_out[q[2]]}
    /\ \A r \in QualifyingPairs :
           SquaredDistance(corners_out[r[1]], corners_out[r[2]])
               <= SquaredDistance(corners_out[q[1]], corners_out[q[2]])

SouthWestOf(a, b) == a[1] < b[1] /\ a[2] < b[2]

\* C10 as stated: for 8 corners, a returned pair is a qualifying pair of maximum
\* squared distance with first.x < second.x and first.y < second.y, and nothing is
\* returned when no pair qualifies.
C10_OrientedMaximalPair ==
    (BoxDone /\ Len(corners_out) = 8)
    => /\ QualifyingPairs = {} => ends_out = None
       /\ ends_out # None =>
             /\ \E q \in QualifyingPairs : IsMaximalPair(q)
             /\ SouthWestOf(ends_out.first, ends_out.second)

\* C10 as amended: for 8 corners, a returned pair is a qualifying pair of maximum
\* squared distance; its first corner has the smaller x and the smaller y when
\* one of its corners has both, and otherwise the pair is returned in the reverse
\* of its order in the corner list; nothing is returned exactly when no pair
\* qualifies.
C10_MaximalPairSwapped ==
    (BoxDone /\ Len(corners_out) = 8)
    => /\ QualifyingPairs = {} <=> ends_out = None
       /\ ends_out # None =>
             \E q \in QualifyingPairs :
                 LET a == corners_out[q[1]]
                     b == corners_out[q[2]]
                 IN  /\ IsMaximalPair(q)
                     /\ IF SouthWestOf(a, b) \/ SouthWestOf(b, a)
                        THEN SouthWestOf(ends_out.first, ends_out.second)
                        ELSE ends_out.first = b /\ ends_out.second = a

\* C10's case: 8 corners whose farthest qualifying pair has one corner with the
\* smaller x and the other with the smaller y, while another pair is left out for
\* being within 0.8 pixel on one axis.
C10_Witness ==
    /\ BoxDone /\ Len(corners_out) = 8
    /\ ends_out # None
    /\ ~SouthWestOf(ends_out.first, ends_out.second)
    /\ ends_out.first[1] > ends_out.second[1]
    /\ \E i, j \in 1..8 : i < j /\ <<i, j>> \notin QualifyingPairs
                          /\ corners_out[i] # corners_out[j]

\* The midpoint of the returned ends and its 6 neighbours, at the offsets (2, 0),
\* (1, 1), (1, -1), (-2, 0), (-1, 1) and (-1, -1) pixels, in twentieths of a pixel,
\* with the depth of the second end.
EndsMidpoint == <<ends_out.first[1] + ends_out.second[1],
                  ends_out.first[2] + ends_out.second[2], ends_out.second[3]>>

NeighbourOffsets == {<<2, 0>>, <<1, 1>>, <<1, -1>>, <<-2, 0>>, <<-1, 1>>, <<-1, -1>>}

InBoundsNeighbours ==
    {o \in NeighbourOffsets :
        inside_image(EndsMidpoint[1] + 20 * o[1], EndsMidpoint[2] + 20 * o[2],
                     rgb_img_size[1], rgb_img_size[2])}

PassingNeighbours ==
    {o \in InBoundsNeighbours :
        have_same_depth(EndsMidpoint[1] + 20 * o[1], EndsMidpoint[2] + 20 * o[2],
                        EndsMidpoint[3], depth_array, neighbor_threshold)}

\* The midpoint is outside the image, or its depth-buffer value x 1000 is not
\* within middle_depth_threshold of the corner depth.
MidpointTestFails ==
    \/ ~inside_image(EndsMidpoint[1], EndsMidpoint[2], rgb_img_size[1], rgb_img_size[2])
    \/ ~have_same_depth(EndsMidpoint[1], EndsMidpoint[2], EndsMidpoint[3],
                        depth_array, middle_depth_threshold)

\* The pair is accepted: a box is returned unless the size filter turns it down.
FallbackCase == BoxDone /\ Len(corners_out) = 8 /\ ends_out # None /\ MidpointTestFails

PairAccepted == bbox_out # None

\* C11: when the midpoint test fails, the pair is accepted if and only if at
\* least one of the 6 neighbours is inside the image and at least 40% of the
\* neighbours inside the image have depth-buffer value x 1000 within
\* neighbor_depth_threshold of the corner depth, the midpoint not being counted
\* (an accepted pair gives a box when the box passes the size filter).
C11_NeighbourFallback ==
    (FallbackCase /\ LargeEnough(select_max_bbox(ends_out), rgb_img_size))
    => (PairAccepted <=>
           /\ Cardinality(InBoundsNeighbours) >= 1
           /\ 10 * Cardinality(PassingNeighbours) >= 4 * Cardinality(InBoundsNeighbours))

\* C12: every box returned, on either acceptance path, is wider than 1% of the
\* image width, higher than 1% of the image height and larger than 0.02% of the
\* image area, hence has xmin <= xmax and ymin <= ymax; a candidate box that
\* fails one of the three is never returned.
C12_ReturnedBoxPassesSizeFilter ==
    BoxDone =>
        /\ bbox_out # None =>
              LET xmin == bbox_out.value[1]
                  xmax == bbox_out.value[2]
                  ymin == bbox_out.value[3]
                  ymax == bbox_out.value[4]
              IN  /\ 100 * (xmax - xmin) > rgb_img_size[1]
                  /\ 100 * (ymax - ymin) > rgb_img_size[2]
                  /\ 10000 * (xmax - xmin) * (ymax - ymin)
                        > 2 * rgb_img_size[1] * rgb_img_size[2]
                  /\ xmin <= xmax
                  /\ ymin <= ymax
        /\ (Len(corners_out) = 8 /\ ends_out # None) =>
              LET candidate == select_max_bbox(ends_out)
                  width == candidate[2] - candidate[1]
                  height == candidate[4] - candidate[3]
              IN  (\/ 100 * width <= rgb_img_size[1]
                   \/ 100 * height <= rgb_img_size[2]
                   \/ 10000 * width * height <= 2 * rgb_img_size[1] * rgb_img_size[2])
                  => bbox_out = None

\* A box returned on the neighbour path whose area is the smallest the pool
\* gives above the filter.
C12_Witness ==
    /\ FallbackCase
    /\ bbox_out # None
    /\ bbox_out.value[2] - bbox_out.value[1] > 8
    /\ bbox_out.value[4] - bbox_out.value[3] > 6

-----------------------------------------------------------------------------
(* The camera model: get_camera_intrinsic_and_transform (lines 331 to 359). *)

\* math.tan(field_of_view * math.pi / 360.0), the tangent of half the field of
\* view, to 5 decimals, as a fraction (the double for 90 degrees is one unit in
\* the last place below 1.0).
Tan(half_degrees) ==
    CASE half_degrees = 30 -> <<57735, 100000>>
      [] half_degrees = 45 -> <<1, 1>>
      [] half_degrees = 60 -> <<173205, 100000>>

\* image_width / (2.0 * tangent): a true division, the divisor is a float.
FloatDiv(a, tangent) == <<a * tangent[2], 2 * tangent[1]>>

\* Lines 352 to 359. field_of_view only goes to the Camera object (line 342);
\* line 358 computes the focal length from the literal 90.0. The principal point
\* is image_size / 2 on ints. The Camera's transform is carla's and is left out.
get_camera_intrinsic_and_transform(fov, size) ==
    LET image_width == size[1]
        image_height == size[2]
        focal == FloatDiv(image_width, Tan(90 \div 2))
    IN  [intrinsic_mat |->
            <<<<focal, <<0, 1>>, PyIntDiv(image_width, 2)>>,
              <<<<0, 1>>, focal, PyIntDiv(image_height, 2)>>,
              <<<<0, 1>>, <<0, 1>>, <<1, 1>>>>>>,
         camera_fov |-> fov,
         image_size |-> <<image_width, image_height>>]

\* The fields of view passed, in degrees.
FieldsOfView == {60, 90, 120}

ImageSizes ==
    {<<w, h>> : w \in (ImageWidth - MaxSizeDelta)..(ImageWidth + MaxSizeDelta),
                h \in (ImageHeight - MaxSizeDelta)..(ImageHeight + MaxSizeDelta)}

InitCam ==
    /\ fn = "get_camera_intrinsic_and_transform" /\ pc = "call"
    /\ field_of_view \in FieldsOfView
    /\ image_size \in ImageSizes
    /\ intrinsic_out = Unused
    /\ EvalUnused /\ ProjUnused /\ BoxUnused

CallGetCameraIntrinsicAndTransform ==
    /\ pc = "call" /\ fn = "get_camera_intrinsic_and_transform"
    /\ intrinsic_out' = get_camera_intrinsic_and_transform(field_of_view, image_size)
    /\ pc' = "done"
    /\ UNCHANGED <<fn, field_of_view, image_size, evalVars, projVars, boxVars>>

SpecCam == InitCam /\ [][CallGetCameraIntrinsicAndTransform]_vars

CamDone == fn = "get_camera_intrinsic_and_transform" /\ pc = "done"

\* C13: for every field_of_view and image size (width, height), the returned
\* intrinsic matrix has principal point (width / 2, height / 2) and focal length
\* width / (2 * tan(field_of_view * pi / 360)) on both axes: width / 2 at 90
\* degrees, and another value at another field of view.
C13_IntrinsicFromFieldOfView ==
    CamDone =>
      LET K == intrinsic_out.intrinsic_mat
          width == image_size[1]
          height == image_size[2]
          expected == FloatDiv(width, Tan(field_of_view \div 2))
      IN  /\ FracEq(K[1][3], <<width, 2>>)
          /\ FracEq(K[2][3], <<height, 2>>)
          /\ FracEq(K[1][1], expected)
          /\ FracEq(K[2][2], expected)
          /\ field_of_view = 90 <=> FracEq(K[1][1], <<width, 2>>)

====
